---- MODULE Spec2Model ----
(***************************************************************************)
(* Model of afs/extract_download_data.py: the download-event               *)
(* classification and aggregation engine.                                  *)
(*                                                                         *)
(* Text is modelled by TLA+ strings and handled character by character;    *)
(* the regular expressions of the source are kept as pattern strings and   *)
(* run by a backtracking matcher with Python's priority order (greedy      *)
(* quantifiers, leftmost alternative first).  Dates are day numbers        *)
(* (days since 1970-01-01); the local time zone of the process is taken to *)
(* be UTC, so datetime.fromtimestamp(ts) falls on day ts \div 86400 and    *)
(* date.timestamp() is day * 86400.                                        *)
(***************************************************************************)
EXTENDS Integers, Sequences, FiniteSets, Bags, TLC

(***************************************************************************)
(* Characters and strings (Python str)                                     *)
(***************************************************************************)

\* The printable ASCII characters in code-point order, from " " (32).  The
\* backquote (96) cannot be written in a TLA+ string: its place is held by a
\* form feed, which occurs in no input.
ASCII ==
  " !\"#$%&'()*+,-./0123456789:;<=>?@ABCDEFGHIJKLMNOPQRSTUVWXYZ[\\]^_\fabcdefghijklmnopqrstuvwxyz{|}~"

\* s[i-1:i], the empty string outside of s.
At(s, i) == IF i >= 1 /\ i <= Len(s) THEN SubSeq(s, i, i) ELSE ""

Chars == { At(ASCII, i) : i \in 1..Len(ASCII) }

OrdOf ==
  [c \in Chars |-> 31 + (CHOOSE i \in 1..Len(ASCII) : At(ASCII, i) = c)]

\* ord(c); the characters outside the printable range that occur are the
\* line end and the tab, for which 9 stands.
Ord(c) == IF c \in Chars THEN OrdOf[c] ELSE 9

IsDigit(c) == c \in {"0", "1", "2", "3", "4", "5", "6", "7", "8", "9"}

IsSpace(c) == c \in {" ", "\t", "\n", "\r"}

LowerOf ==
  [c \in Chars |->
     IF OrdOf[c] >= 65 /\ OrdOf[c] <= 90 THEN At(ASCII, OrdOf[c] + 32 - 31)
     ELSE c]

\* str.lower() on one character.
LowerChar(c) == IF c \in Chars THEN LowerOf[c] ELSE c

\* s.startswith(p)
StartsWith(s, p) == Len(s) >= Len(p) /\ SubSeq(s, 1, Len(p)) = p

\* p in s
Contains(s, p) ==
  \E i \in 1..(Len(s) - Len(p) + 1) : SubSeq(s, i, i + Len(p) - 1) = p

\* s.rstrip()
RECURSIVE RStrip(_)
RStrip(s) ==
  IF Len(s) > 0 /\ IsSpace(At(s, Len(s))) THEN RStrip(SubSeq(s, 1, Len(s) - 1))
  ELSE s

\* s.lstrip()
RECURSIVE LStrip(_)
LStrip(s) ==
  IF Len(s) > 0 /\ IsSpace(At(s, 1)) THEN LStrip(SubSeq(s, 2, Len(s)))
  ELSE s

\* s.strip()
Strip(s) == LStrip(RStrip(s))

\* The first position >= i of s holding a character of the set cs, or
\* Len(s) + 1.
NextIn(s, i, cs) ==
  LET hits == { j \in i..Len(s) : At(s, j) \in cs }
  IN  IF hits = {} THEN Len(s) + 1
      ELSE CHOOSE j \in hits : \A k \in hits : j <= k

\* s.split(sep) for a one-character separator: the pieces, empty ones kept.
RECURSIVE SplitOn(_, _, _)
SplitOn(s, sep, from) ==
  LET j == NextIn(s, from, {sep})
  IN  IF j > Len(s) THEN << SubSeq(s, from, Len(s)) >>
      ELSE << SubSeq(s, from, j - 1) >> \o SplitOn(s, sep, j + 1)

Split(s, sep) == SplitOn(s, sep, 1)

\* s.split(): the maximal runs of non-whitespace characters.
RECURSIVE SplitWs(_, _)
SplitWs(s, from) ==
  LET j == NextIn(s, from, {" ", "\t", "\n", "\r"})
  IN  IF from > Len(s) THEN << >>
      ELSE IF j = from THEN SplitWs(s, from + 1)
      ELSE << SubSeq(s, from, j - 1) >> \o SplitWs(s, j + 1)

SplitWhitespace(s) == SplitWs(s, 1)

\* sep.join(parts)
RECURSIVE Join(_, _)
Join(sep, parts) ==
  IF Len(parts) = 0 THEN ""
  ELSE IF Len(parts) = 1 THEN parts[1]
  ELSE parts[1] \o sep \o Join(sep, Tail(parts))

\* parts[0:2]
FirstTwo(parts) == SubSeq(parts, 1, IF Len(parts) < 2 THEN Len(parts) ELSE 2)

\* int(s) succeeds: an optional sign and at least one decimal digit.
AllDigits(s) == Len(s) > 0 /\ \A i \in 1..Len(s) : IsDigit(At(s, i))

IsInt(s) ==
  \/ AllDigits(s)
  \/ Len(s) > 1 /\ At(s, 1) \in {"+", "-"} /\ AllDigits(SubSeq(s, 2, Len(s)))

RECURSIVE DigitsValue(_)
DigitsValue(s) ==
  IF Len(s) = 0 THEN 0
  ELSE 10 * DigitsValue(SubSeq(s, 1, Len(s) - 1)) + (Ord(At(s, Len(s))) - 48)

\* int(s), for a string with IsInt(s).
ToInt(s) ==
  IF At(s, 1) = "-" THEN 0 - DigitsValue(SubSeq(s, 2, Len(s)))
  ELSE IF At(s, 1) = "+" THEN DigitsValue(SubSeq(s, 2, Len(s)))
  ELSE DigitsValue(s)

\* a < b for Python strings (code-point order, a proper prefix is smaller).
RECURSIVE StrLess(_, _)
StrLess(a, b) ==
  IF Len(b) = 0 THEN FALSE
  ELSE IF Len(a) = 0 THEN TRUE
  ELSE IF At(a, 1) = At(b, 1) THEN StrLess(Tail(a), Tail(b))
  ELSE Ord(At(a, 1)) < Ord(At(b, 1))

\* a < b for Python lists of integers.
RECURSIVE IntListLess(_, _)
IntListLess(a, b) ==
  IF Len(b) = 0 THEN FALSE
  ELSE IF Len(a) = 0 THEN TRUE
  ELSE IF a[1] = b[1] THEN IntListLess(Tail(a), Tail(b))
  ELSE a[1] < b[1]

(***************************************************************************)
(* Regular expressions (Python re): patterns are compiled from the pattern *)
(* text of the source into a tree, and matched by backtracking.  A match   *)
(* attempt yields every way the pattern can match, in the order in which   *)
(* Python's matcher tries them, so the first one is the match Python       *)
(* reports.                                                                *)
(***************************************************************************)

RECURSIVE SeqAfter(_, _, _), AltAfter(_, _, _)
RECURSIVE ParseAlt(_, _, _), AltRest(_, _, _, _), SeqRest(_, _, _, _),
          ParseQuant(_, _, _), ParseAtom(_, _, _), ClassItems(_, _, _, _)

\* The items of a character class, from position i up to the closing bracket.
ClassItems(p, i, cs, dig) ==
  IF At(p, i) = "]" THEN [cs |-> cs, dig |-> dig, i |-> i + 1]
  ELSE IF At(p, i) = "\\"
       THEN IF At(p, i + 1) = "d" THEN ClassItems(p, i + 2, cs, TRUE)
            ELSE ClassItems(p, i + 2, cs \o At(p, i + 1), dig)
       ELSE ClassItems(p, i + 1, cs \o At(p, i), dig)

\* The node of a class with the items it.
ClassNode(neg, it) ==
  [n |-> [t |-> "set", neg |-> neg, cs |-> it.cs, dig |-> it.dig], i |-> it.i]

ParseClass(p, i) ==
  IF At(p, i + 1) = "^"
  THEN ClassNode(TRUE, ClassItems(p, i + 2, "", FALSE))
  ELSE ClassNode(FALSE, ClassItems(p, i + 1, "", FALSE))

\* The node of a group whose content r has been parsed: number g, or
\* non-capturing for g = 0.
GroupNode(r, g) ==
  [n |-> IF g = 0 THEN r.n ELSE [t |-> "grp", n |-> g, k |-> << r.n >>],
   i |-> r.i + 1, g |-> r.g]

\* The node of a backslash followed by e.
EscapeNode(e) ==
  IF e = "d" THEN [t |-> "set", neg |-> FALSE, cs |-> "", dig |-> TRUE]
  ELSE IF e = "s" THEN [t |-> "set", neg |-> FALSE, cs |-> " \t\n\r", dig |-> FALSE]
  ELSE [t |-> "chr", c |-> e]

\* The node of the plain character c.
CharNode(c) ==
  IF c = "." THEN [t |-> "any"]
  ELSE IF c = "^" THEN [t |-> "bol"]
  ELSE IF c = "$" THEN [t |-> "eol"]
  ELSE [t |-> "chr", c |-> c]

\* r, a node and the position after it, with the group counter g.
Counting(r, g) == [n |-> r.n, i |-> r.i, g |-> g]

ParseAtom(p, i, g) ==
  IF At(p, i) = "(" THEN
    IF At(p, i + 1) = "?" /\ At(p, i + 2) = ":"
    THEN GroupNode(ParseAlt(p, i + 3, g), 0)
    ELSE GroupNode(ParseAlt(p, i + 1, g + 1), g)
  ELSE IF At(p, i) = "[" THEN Counting(ParseClass(p, i), g)
  ELSE IF At(p, i) = "\\" THEN
    [n |-> EscapeNode(At(p, i + 1)), i |-> i + 2, g |-> g]
  ELSE [n |-> CharNode(At(p, i)), i |-> i + 1, g |-> g]

\* The atom a with the quantifier q that follows it, if q is one.
Quantified(a, q) ==
  IF q = "?" THEN [n |-> [t |-> "opt", k |-> << a.n >>], i |-> a.i + 1, g |-> a.g]
  ELSE IF q = "*" THEN [n |-> [t |-> "star", k |-> << a.n >>], i |-> a.i + 1, g |-> a.g]
  ELSE IF q = "+" THEN [n |-> [t |-> "plus", k |-> << a.n >>], i |-> a.i + 1, g |-> a.g]
  ELSE a

\* The atom a of p with its quantifier.
WithQuantifier(p, a) == Quantified(a, At(p, a.i))

ParseQuant(p, i, g) == WithQuantifier(p, ParseAtom(p, i, g))

\* The sequence acc continued after its next item a.
SeqAfter(p, acc, a) == SeqRest(p, Append(acc, a.n), a.i, a.g)

SeqRest(p, acc, i, g) ==
  IF i > Len(p) \/ At(p, i) = "|" \/ At(p, i) = ")"
  THEN [n |-> [t |-> "cat", k |-> acc], i |-> i, g |-> g]
  ELSE SeqAfter(p, acc, ParseQuant(p, i, g))

\* The alternatives acc continued after the next one, nx.
AltAfter(p, acc, nx) == AltRest(p, Append(acc, nx.n), nx.i, nx.g)

AltRest(p, acc, i, g) ==
  IF i <= Len(p) /\ At(p, i) = "|"
  THEN AltAfter(p, acc, SeqRest(p, << >>, i + 1, g))
  ELSE [n |-> [t |-> "alt", k |-> acc], i |-> i, g |-> g]

ParseAlt(p, i, g) == AltAfter(p, << >>, SeqRest(p, << >>, i, g))

\* The compiled pattern: its tree r.n and the number of its groups.
Compiled(r, ic) == [n |-> r.n, groups |-> r.g - 1, ic |-> ic]

\* re.compile(pattern, re.IGNORECASE if ic else 0)
Compile(pattern, ic) == Compiled(ParseAlt(pattern, 1, 1), ic)

\* Does the one-character node nd accept the character c?
CharMatches(nd, c, ic) ==
  IF nd.t = "chr" THEN (IF ic THEN LowerChar(c) = LowerChar(nd.c) ELSE c = nd.c)
  ELSE IF nd.t = "any" THEN c # "\n"
  ELSE LET in == \/ nd.dig /\ IsDigit(c)
                 \/ Contains(nd.cs, c)
                 \/ ic /\ Contains(nd.cs, LowerChar(c))
       IN  in # nd.neg

\* The end of the longest run of characters accepted by the one-character
\* node nd in s from position i (the position after the run).
RunEnd(nd, s, i, ic) ==
  LET stops == { j \in i..Len(s) : ~CharMatches(nd, At(s, j), ic) }
  IN  IF stops = {} THEN Len(s) + 1
      ELSE CHOOSE j \in stops : \A k \in stops : j <= k

RECURSIVE M(_, _, _, _, _), MCat(_, _, _, _, _, _), MCatEach(_, _, _, _, _, _, _),
          MAlt(_, _, _, _, _, _)

\* Every match of node nd on s from position i, in priority order; each is
\* the position after the match and the spans of the groups closed so far.
\* The source repeats one-character items only (.*, [\d.]+, \d+, [^/ ]+): a
\* greedy repetition tries the longest run first and gives back one
\* character at a time, down to min repetitions.
M(nd, s, i, caps, ic) ==
  IF nd.t \in {"chr", "any", "set"} THEN
    IF i <= Len(s) /\ CharMatches(nd, At(s, i), ic)
    THEN << [i |-> i + 1, caps |-> caps] >> ELSE << >>
  ELSE IF nd.t = "bol" THEN
    IF i = 1 THEN << [i |-> i, caps |-> caps] >> ELSE << >>
  ELSE IF nd.t = "eol" THEN
    IF i = Len(s) + 1 \/ (i = Len(s) /\ At(s, i) = "\n")
    THEN << [i |-> i, caps |-> caps] >> ELSE << >>
  ELSE IF nd.t = "cat" THEN MCat(nd.k, 1, s, i, caps, ic)
  ELSE IF nd.t = "alt" THEN MAlt(nd.k, 1, s, i, caps, ic)
  ELSE IF nd.t = "opt" THEN
    M(nd.k[1], s, i, caps, ic) \o << [i |-> i, caps |-> caps] >>
  ELSE IF nd.t \in {"star", "plus"} THEN
    LET e   == RunEnd(nd.k[1], s, i, ic)
        min == IF nd.t = "star" THEN i ELSE i + 1
    IN  [j \in 1..(e - min + 1) |-> [i |-> e - j + 1, caps |-> caps]]
  ELSE \* "grp"
    LET rs == M(nd.k[1], s, i, caps, ic)
    IN  [j \in 1..Len(rs) |->
           [i |-> rs[j].i, caps |-> [rs[j].caps EXCEPT ![nd.n] = << i, rs[j].i >>]]]

\* The rest of a sequence, kids[k..], after each of the matches rs[lo..hi]
\* of its item k - 1.
MCat(kids, k, s, i, caps, ic) ==
  IF k > Len(kids) THEN << [i |-> i, caps |-> caps] >>
  ELSE LET rs == M(kids[k], s, i, caps, ic)
       IN  MCatEach(kids, k, s, rs, 1, Len(rs), ic)

MCatEach(kids, k, s, rs, lo, hi, ic) ==
  IF lo > hi THEN << >>
  ELSE IF lo = hi THEN MCat(kids, k + 1, s, rs[lo].i, rs[lo].caps, ic)
  ELSE LET mid == (lo + hi) \div 2
       IN  MCatEach(kids, k, s, rs, lo, mid, ic)
           \o MCatEach(kids, k, s, rs, mid + 1, hi, ic)

MAlt(kids, k, s, i, caps, ic) ==
  IF k > Len(kids) THEN << >>
  ELSE M(kids[k], s, i, caps, ic) \o MAlt(kids, k + 1, s, i, caps, ic)

NoMatch == [ok |-> FALSE, groups |-> << >>, end |-> 0]

\* The first match of re on s from position i: its groups and its end.
MatchAt(re, s, i) ==
  LET rs == M(re.n, s, i, [g \in 1..re.groups |-> << 0, 0 >>], re.ic)
  IN  IF Len(rs) = 0 THEN NoMatch
      ELSE [ok |-> TRUE,
            groups |-> [g \in 1..re.groups |->
                          SubSeq(s, rs[1].caps[g][1], rs[1].caps[g][2] - 1)],
            end |-> rs[1].i - 1]

\* re.match(s): the pattern matches at the start of s.
ReMatch(re, s) == MatchAt(re, s, 1)

\* re.search(s) is not None: the pattern matches somewhere in s.
ReSearch(re, s) == \E i \in 1..(Len(s) + 1) : MatchAt(re, s, i).ok

(***************************************************************************)
(* Pattern classifier: OS_MAP, ARCH_MAP, get_os, get_arch                  *)
(***************************************************************************)

WINDOWS == "Windows"
LINUX == "Linux"
MACOS == "MacOS"
\* OTHER of the source (a reserved word here); both assignments give "Other".
OTHER_ == "Other"
X86 == "x86"
X86_64 == "x86-64"

\* The rules in declaration order; no pattern occurs twice in a table, so the
\* OrderedDict keyed by the compiled patterns keeps every rule at its place.
OS_RULES == <<
    << "winnt",   WINDOWS >>,
    << "windows", WINDOWS >>,
    << "winn50",  WINDOWS >>,
    << "\\.deb$", LINUX >>,
    << "_deb_",   LINUX >>,
    << "\\.rpm$", LINUX >>,
    << "linux",   LINUX >>,
    << "rhel",    LINUX >>,
    << "rhap",    LINUX >>,
    << "rhas",    LINUX >>,
    << "fedora",  LINUX >>,
    << "redhat",  LINUX >>,
    << "centos",  LINUX >>,
    << "ubuntu",  LINUX >>,
    << "debian",  LINUX >>,
    << "mac ?os ?x?", MACOS >>,
    << "irix", OTHER_ >>,
    << "dux", OTHER_ >>,
    << "solaris", OTHER_ >>,
    << "sun4u_sol_", OTHER_ >>,
    << "aix", OTHER_ >>,
    << "hpux", OTHER_ >>,
    << "bsd", OTHER_ >>,
    << "vax-openvms", OTHER_ >>,
    << "ydl3",    LINUX >>,
    << "yd5",     LINUX >>,
    << "all",     "All" >>,
    << "_sl_",    LINUX >>,
    << "sles",    LINUX >>,
    << "_sol_",   LINUX >>,
    << "\\.orig\\.tar\\.[gx]z", LINUX >>,
    << "-src\\.tar\\.[gbx]z2?", "All" >>
  >>

ARCH_RULES == <<
    << "linux-x86-g?libc", X86 >>,
    << "linux-x86.tar",     X86 >>,
    << "linux-x86-redhat",  X86 >>,
    << "linux-x86-rhel",    X86 >>,
    << "linux-x86-debian",  X86 >>,
    << "winnt-x86-5.0",     X86 >>,
    << "amd64",  X86_64 >>,
    << "x86_64", X86_64 >>,
    << "i386",   X86 >>,
    << "i686",   X86 >>,
    << "x64",    X86_64 >>,
    << "ia64", OTHER_ >>,
    << "ppc64", OTHER_ >>,
    << "sun4u", OTHER_ >>,
    << "sparc", OTHER_ >>,
    << "alpha", OTHER_ >>,
    << "-ppc-", OTHER_ >>,
    << "ppc_aix", OTHER_ >>,
    << "hppar", OTHER_ >>,
    << "sgi", OTHER_ >>,
    << "powerpc", OTHER_ >>,
    << "vax-openvms", OTHER_ >>,
    << "aix.*aix", OTHER_ >>,
    << "x86-dynamic", X86 >>,
    << "x86\\.exe",   X86 >>,
    << "x86\\.zip",   X86 >>,
    << "x86\\.msi",   X86 >>,
    << "x86\\.tar",   X86 >>,
    << "-all-all", "All" >>,
    << "-x86_rhap",   X86 >>,
    << "-x86_rhas",   X86 >>,
    << "-x86_redhat", X86 >>,
    << "-x86_deb",    X86 >>,
    << "-x86_sl",     X86 >>,
    << "-x86_freebsd", X86 >>,
    << "-x86_macos",  X86 >>,
    << "-x86_centos", X86 >>,
    << "\\.src\\.",  "All" >>,
    << "^all$",    "All" >>,
    << "\\.(orig|debian)\\.tar\\.[gx]z", "All" >>,
    << "-src\\.tar\\.[gbx]z2?", "All" >>
  >>

\* The tables after compilation with re.IGNORECASE.
OS_MAP ==
  [i \in 1..Len(OS_RULES) |->
     [re |-> Compile(OS_RULES[i][1], TRUE), label |-> OS_RULES[i][2]]]

ARCH_MAP ==
  [i \in 1..Len(ARCH_RULES) |->
     [re |-> Compile(ARCH_RULES[i][1], TRUE), label |-> ARCH_RULES[i][2]]]

\* A faulty loop: no rule ends the search, so the last rule whose pattern is
\* found in the token gives the label.
FirstLabel_last_match(map, token, i) ==
  LET hit == { j \in i..Len(map) : ReSearch(map[j].re, token) }
  IN  IF hit = {} THEN "Unknown"
      ELSE map[CHOOSE j \in hit : \A k \in hit : k <= j].label

\* The loop of get_os and get_arch: the rules are tried from rule i on, and
\* the first one whose pattern is found in the token returns its label.
RECURSIVE FirstLabel(_, _, _)
FirstLabel(map, token, i) ==
  IF i > Len(map) THEN "Unknown"
  ELSE IF ReSearch(map[i].re, token) THEN map[i].label
  ELSE FirstLabel(map, token, i + 1)

get_os(filename) == FirstLabel(OS_MAP, filename, 1)

get_arch(filename) == FirstLabel(ARCH_MAP, filename, 1)

(***************************************************************************)
(* Filename decoding shared by read_log_file and read_native_file          *)
(***************************************************************************)

re_binary == Compile("h?t?condor-([\\d.]+\\d)(?:_preview)?[-.](.*)", FALSE)
re_source == Compile("h?t?condor_src-([\\d.]+\\d)(?:_preview)?[-.](.*)", FALSE)
re_binary_deb == Compile("h?t?condor_([\\d.]+\\d)-(.*\\.deb)", FALSE)
re_source_deb ==
  Compile("h?t?condor_([\\d.]+\\d)\\..*(orig|debian)\\.tar\\.[xg]z", FALSE)

\* A faulty slice: ".".join(version.split(".")[0:3])
MajorOf_three(version) ==
  LET parts == Split(version, ".")
  IN  Join(".", SubSeq(parts, 1, IF Len(parts) < 3 THEN Len(parts) ELSE 3))

\* ".".join(version.split(".")[0:2])
MajorOf(version) == Join(".", FirstTwo(Split(version, ".")))

\* The test of read_log_file that lets a version through.
VersionAccepted(version_major) ==
  ~(~Contains(version_major, ".") \/ Len(version_major) < 3)

\* What the decoding of one line produced: the line is dropped (ok = FALSE,
\* why says at which test) or it is to be stored under these keys.
Dropped(why) ==
  [ok |-> FALSE, why |-> why, family |-> "", version |-> "",
   version_major |-> "", os |-> "", arch |-> "", hits |-> 0]

Decoded(family, version, version_major, os, arch, hits) ==
  [ok |-> TRUE, why |-> "", family |-> family, version |-> version,
   version_major |-> version_major, os |-> os, arch |-> arch, hits |-> hits]

\* The pattern that captures the version of a kind of filename.
FamilyRegex(contents) ==
  IF contents = "binary" THEN re_binary
  ELSE IF contents = "source" THEN re_source
  ELSE IF contents = "binary_deb" THEN re_binary_deb
  ELSE re_source_deb

\* The kind of filename read_log_file takes filename for; a .deb counts as
\* "binary" once it has been matched.
LogContents(filename) ==
  IF StartsWith(filename, "condor-") \/ StartsWith(filename, "htcondor-")
  THEN "binary"
  ELSE IF StartsWith(filename, "condor_src-") \/ StartsWith(filename, "htcondor_src-")
  THEN "source"
  ELSE IF ReMatch(re_binary_deb, filename).ok THEN "binary_deb"
  ELSE "none"

\* A faulty decoder: a filename of unknown OS or architecture is dropped.
LogKeys_drops_unknown(contents, version, version_major, filename) ==
  IF ~VersionAccepted(version_major) THEN Dropped("weird_version")
  ELSE IF get_os(filename) = "Unknown" \/ get_arch(filename) = "Unknown"
  THEN Dropped("unknown")
  ELSE Decoded(contents, version, version_major,
               get_os(filename), get_arch(filename), 1)

\* The version test, and the classification of the filename.
LogKeys(contents, version, version_major, filename) ==
  IF ~VersionAccepted(version_major) THEN Dropped("weird_version")
  ELSE Decoded(contents, version, version_major,
               get_os(filename), get_arch(filename), 1)

\* "if match is None", and the version of the match.
LogMatched(contents, match, filename) ==
  IF ~match.ok THEN Dropped("unparseable")
  ELSE LogKeys(contents, match.groups[1], MajorOf(match.groups[1]), filename)

LogFamily(contents, filename) ==
  IF contents = "none" THEN Dropped("unparseable")
  ELSE LogMatched(IF contents = "binary_deb" THEN "binary" ELSE contents,
                  ReMatch(FamilyRegex(contents), filename), filename)

\* read_log_file, from the skip-list to the classification, for the
\* filename of one line; a stored log line counts 1.
DecodeLogFilename(filename) ==
  IF Contains(filename, "sha256sum") THEN Dropped("skiplist")
  ELSE IF StartsWith(filename, "condordebugsyms") THEN Dropped("skiplist")
  ELSE IF StartsWith(filename, "condor-drone-") THEN Dropped("skiplist")
  ELSE LogFamily(LogContents(filename), filename)

(***************************************************************************)
(* read_native_file: the body lines of the digest                          *)
(***************************************************************************)

re_rpm ==
  Compile("/.*/h?t?condor-([\\d.]+\\d)-.*\\.(x86_64|i386|i686|ia64)\\.rpm \\((\\d+) hits?\\)", FALSE)
re_src_rpm ==
  Compile("/.*/h?t?condor-([\\d.]+\\d)-(.*)\\.src\\.rpm \\((\\d+) hits?\\)", FALSE)
re_deb ==
  Compile("/.*/h?t?condor[_-]([\\d.]+\\d)-.*_(amd64|i386|all)\\.deb \\((\\d+) hits?\\)", FALSE)
re_src_deb ==
  Compile("/.*/h?t?condor[_-]([\\d.]+\\d)-.*\\.(orig|debian)\\.tar\\.[xg]z \\((\\d+) hits?\\)", FALSE)
re_tarball ==
  Compile("/.*/tarball/.*/(h?t?condor[-_][\\d.]+\\d[-.][^/ ]+) \\((\\d+) hits?\\)", FALSE)
re_src_tarball ==
  Compile("/.*/tarball/.*/(h?t?condor_src[-_][\\d.]+\\d[-.][^/ ]+) \\((\\d+) hits?\\)", FALSE)

\* "Only consider lines that are paths"
IsCandidate(line) ==
  /\ StartsWith(line, "/")
  /\ Split(line, "/")[2] \in {"s", "condor", "htcondor"}

\* The kind of filename the tarball branch takes filename for.
TarballContents(filename) ==
  IF StartsWith(filename, "condor-") \/ StartsWith(filename, "htcondor-")
  THEN "binary"
  ELSE IF StartsWith(filename, "condor_src-") \/ StartsWith(filename, "htcondor_src-")
  THEN "source"
  ELSE IF ReMatch(re_binary_deb, filename).ok THEN "binary_deb"
  ELSE IF ReMatch(re_source_deb, filename).ok THEN "source_deb"
  ELSE "none"

\* "if match is None", the version of the match and the classification of
\* the filename.
TarballMatched(match, filename, hits) ==
  IF ~match.ok THEN Dropped("unparseable")
  ELSE Decoded("tarball", match.groups[1], MajorOf(match.groups[1]),
               get_os(filename), get_arch(filename), hits)

TarballFamily(contents, filename, hits) ==
  IF contents = "none" THEN Dropped("unparseable")
  ELSE TarballMatched(ReMatch(FamilyRegex(contents), filename), filename, hits)

\* The tarball branch: the filename captured from the line is decoded.
DecodeTarball(filename, hits) ==
  IF Contains(filename, "sha256sum") THEN Dropped("skiplist")
  ELSE TarballFamily(TarballContents(filename), filename, hits)

\* "a or b" of two match results.
OrMatch(a, b) == IF a.ok THEN a ELSE b

\* A faulty order of the branches: the tarball family is tried first.
DecodeFamilies_tarball_first(binary, source, tarball) ==
  IF tarball.ok THEN
    DecodeTarball(tarball.groups[1], ToInt(tarball.groups[2]))
  ELSE IF binary.ok THEN
    Decoded("binary", binary.groups[1], MajorOf(binary.groups[1]), LINUX,
            get_arch(binary.groups[2]), ToInt(binary.groups[3]))
  ELSE IF source.ok THEN
    Decoded("source", source.groups[1], MajorOf(source.groups[1]), LINUX, "All",
            ToInt(source.groups[3]))
  ELSE Dropped("no_family")

\* The three branches of read_native_file, given the match of the line with
\* each family.
DecodeFamilies(binary, source, tarball) ==
  IF binary.ok THEN
    Decoded("binary", binary.groups[1], MajorOf(binary.groups[1]), LINUX,
            get_arch(binary.groups[2]), ToInt(binary.groups[3]))
  ELSE IF source.ok THEN
    Decoded("source", source.groups[1], MajorOf(source.groups[1]), LINUX, "All",
            ToInt(source.groups[3]))
  ELSE IF tarball.ok THEN
    DecodeTarball(tarball.groups[1], ToInt(tarball.groups[2]))
  ELSE Dropped("no_family")

\* The families matched against line.rstrip().
DecodeCandidate(text) ==
  DecodeFamilies(OrMatch(ReMatch(re_rpm, text), ReMatch(re_deb, text)),
                 OrMatch(ReMatch(re_src_rpm, text), ReMatch(re_src_deb, text)),
                 OrMatch(ReMatch(re_tarball, text), ReMatch(re_src_tarball, text)))

\* read_native_file from "Only consider lines that are paths" to the point
\* where the counts are stored, for one line read from the file.
DecodeNativeLine(line) ==
  IF ~IsCandidate(line) THEN Dropped("not_a_path")
  ELSE DecodeCandidate(RStrip(line))

(***************************************************************************)
(* Dates: datetime.strptime(..., "%a, %d %b %Y %H") and day numbers        *)
(***************************************************************************)

\* The pattern _strptime builds for the format "%a, %d %b %Y %H" (C locale),
\* compiled with re.IGNORECASE; the character ranges are written out.
re_strptime ==
  Compile("(mon|tue|wed|thu|fri|sat|sun),\\s+(3[01]|[12]\\d|0[123456789]|[123456789]| [123456789])\\s+(jan|feb|mar|apr|may|jun|jul|aug|sep|oct|nov|dec)\\s+(\\d\\d\\d\\d)\\s+(2[0123]|[01]\\d|\\d)", TRUE)

MonthNames ==
  << "jan", "feb", "mar", "apr", "may", "jun",
     "jul", "aug", "sep", "oct", "nov", "dec" >>

RECURSIVE LowerStr(_)
LowerStr(s) ==
  IF Len(s) = 0 THEN "" ELSE LowerChar(At(s, 1)) \o LowerStr(Tail(s))

IsLeap(y) == (y % 4 = 0 /\ y % 100 # 0) \/ y % 400 = 0

DaysInMonth(y, m) ==
  IF m = 2 THEN (IF IsLeap(y) THEN 29 ELSE 28)
  ELSE IF m \in {4, 6, 9, 11} THEN 30 ELSE 31

\* Days from 1970-01-01 to the civil date y-m-d.
DayNumber(y, m, d) ==
  LET yy  == IF m <= 2 THEN y - 1 ELSE y
      era == yy \div 400
      yoe == yy - era * 400
      mp  == IF m > 2 THEN m - 3 ELSE m + 9
      doy == (153 * mp + 2) \div 5 + d - 1
      doe == yoe * 365 + yoe \div 4 - yoe \div 100 + doy
  IN  era * 146097 + doe - 719468

\* None, where a date is expected.
NoDate == 0 - 1

\* datetime(y, m, d), as a day number; NoDate stands for the ValueError.
DateOf(y, m, d) ==
  IF y < 1 \/ d > DaysInMonth(y, m) THEN NoDate ELSE DayNumber(y, m, d)

MonthOf(name) == CHOOSE i \in 1..12 : MonthNames[i] = name

\* The date of the match of the format with the whole of text; NoDate
\* stands for the ValueError (no match, or unconverted data left).
DateFound(found, text) ==
  IF ~found.ok \/ found.end # Len(text) THEN NoDate
  ELSE DateOf(ToInt(found.groups[4]), MonthOf(LowerStr(found.groups[3])),
              ToInt(Strip(found.groups[2])))

DateText(text) == DateFound(ReMatch(re_strptime, text), text)

\* The date of a "Date:" line: datetime.strptime(line.split(":")[1].strip(),
\* "%a, %d %b %Y %H") cut to the day, as a day number.
ParseDate(line) == DateText(Strip(Split(line, ":")[2]))

SecondsPerDay == 24 * 3600

\* date.timestamp() of a datetime holding only a date.
Timestamp(day) == day * SecondsPerDay

\* datetime.fromtimestamp(ts) cut to the day.
DayOf(ts) == ts \div SecondsPerDay

(***************************************************************************)
(* Inputs: the lines the two files may hold and the reporting windows      *)
(***************************************************************************)

\* Lines of the mailbox (native-packages.mbox), without their line end.
NativeLines == {
  "From mirror@cs.wisc.edu Sat Mar  6 02:30:32 2021",
  "Date: Sat, 06 Mar 2021 02:30:32 -0600 (CST)",
  "Date: Sat, 02 Mar 2019 02:30:32 -0600 (CST)",
  "Date: garbage",
  "",
  "Subject: weekly report",
  ">From the mirror",
  "/condor/8.9.0/foo/condor-8.9.0-1.x86_64.rpm (12 hits)",
  "/condor/8.9.0/foo/condor-8.9.0-1.src.rpm (2 hits)",
  "/condor/tarball/8.9/8.9.0/condor-8.9.0-x86_64_Ubuntu18-stripped.tar.gz (3 hits)",
  "/condor/tarball/8.9/8.9.0/condor-8.9.0-sha256sum.txt (1 hit)",
  "/condor/8.9.0/condor-8.9.0-sha256sum.x86_64.rpm (3 hits)",
  "/condor/debian/condor_8.9.0-1_amd64.deb (0 hits)",
  "/condor/89/condor-89-1.i386.rpm (4 hits)",
  "/condor/tarball/8.9/8.9.0/condor_8.9.0-x.tar.gz (5 hits)",
  "/condor/index.html (7 hits)",
  "/condor/tarball/8.9/condor-8.9.0-Windows.x86_64.rpm (6 hits)",
  "/condor/tarball/8.9/8.9.0/condor-8.9.0-foo.tar.gz (2 hits)" }

\* Lines of the sendfile-v* logs, without their line end.
LogLines == {
  "1551455077 END condor-8.9.0-462330-Windows-x64.zip extra",
  "1551541477 END condor-8.8.1-x86_64_Ubuntu18-stripped.tar.gz",
  "1551541477 START condor-8.9.0-462330-Windows-x64.zip",
  "1551000000 END condor-8.9.0-462330-Windows-x64.zip",
  "1551541477 END condor-8.9.0-sha256sum.txt",
  "1551541477 END condordebugsyms-8.9.0-x64.zip",
  "1551541477 END condor-drone-8.9.0-x86_64.tar.gz",
  "1551541477 END condor_src-8.9.0-all-all.tar.gz",
  "1551541477 END condor_8.9-1_amd64.deb",
  "1551541477 END condor-10..5-x86.zip",
  "1551541477 END condor-89-Windows-x64.zip",
  "1551541477 END README.txt",
  "",
  "1551541477 END condor-6.8.0-sun4u_sol_5.9-dynamic.tar.gz",
  "1551541477 END condor-8.9.0-foo.tar.gz",
  "1551541477 END condor-8.9.0-1.x86_64.src.rpm" }

\* The values of --start and --end: a window that starts in the middle of
\* 2019-03-01 and covers both years, and one that starts at midnight of
\* 2019-03-01 and ends in the same week.
Windows == {
  [start |-> 1551400000, end |-> 1615000000],
  [start |-> 1551398400, end |-> 1551600000] }

\* A line as iterating over the file yields it.
Raw(line) == line \o "\n"

\* The columns of a log line: line.rstrip().split().
Columns(line) == SplitWhitespace(RStrip(Raw(line)))

\* The decoders applied to the lines of the inputs, once and for all.
NativeDecoded == [l \in NativeLines |-> DecodeNativeLine(Raw(l))]

NativeDate ==
  [l \in NativeLines |->
     IF StartsWith(Raw(l), "Date:") THEN ParseDate(Raw(l)) ELSE NoDate]

LogDecoded ==
  [l \in LogLines |->
     IF Len(Columns(l)) >= 3 THEN DecodeLogFilename(Columns(l)[3])
     ELSE Dropped("no_filename")]

\* The columns of the lines of the logs.
LogColumns == [l \in LogLines |-> Columns(l)]

\* Which branch of the envelope tests of read_native_file a line takes,
\* as far as the line alone decides it.
NativeShape ==
  [l \in NativeLines |->
     IF StartsWith(Raw(l), "From ") THEN "boundary"
     ELSE IF Contains(Raw(l), "From ") THEN "corruption"
     ELSE IF StartsWith(Raw(l), "Date:") THEN "date"
     ELSE IF Strip(Raw(l)) = "" THEN "blank"
     ELSE "text"]

(***************************************************************************)
(* The Aggregation Store: defaultdict(defaultdict(defaultdict(int)))       *)
(***************************************************************************)

EmptyFn == [x \in {} |-> 0]

\* f with f[k] = v, the entry being created when it is missing.
Put(f, k, v) == [x \in DOMAIN f \cup {k} |-> IF x = k THEN v ELSE f[x]]

\* The keys of the first level: a date (a day number), or the string "cum"
\* that write_csvs adds.
DateKey(day) == << "date", day >>
CumKey == << "cum", 0 >>

\* d[top] and d[top][dim], as a defaultdict returns them.
Level2(d, top) == IF top \in DOMAIN d THEN d[top] ELSE EmptyFn

Level3(d, top, dim) ==
  IF dim \in DOMAIN Level2(d, top) THEN Level2(d, top)[dim] ELSE EmptyFn

\* The value d[top][dim][key] would return: 0 for a missing cell.
Cell(d, top, dim, key) ==
  IF key \in DOMAIN Level3(d, top, dim) THEN Level3(d, top, dim)[key] ELSE 0

\* A faulty update: d[top][dim][key] = w, an assignment in place of "+=".
Incr_overwrites(d, top, dim, key, w) ==
  Put(d, top,
      Put(Level2(d, top), dim,
          Put(Level3(d, top, dim), key, w)))

\* A faulty update: d[top][dim] = {key: d[top][dim][key] + w}, the other
\* keys of the dimension being lost.
Incr_fresh_dimension(d, top, dim, key, w) ==
  Put(d, top,
      Put(Level2(d, top), dim,
          Put(EmptyFn, key, Cell(d, top, dim, key) + w)))

\* d after d[top][dim][key] += w: missing levels and the cell are created.
Incr(d, top, dim, key, w) ==
  Put(d, top,
      Put(Level2(d, top), dim,
          Put(Level3(d, top, dim), key, Cell(d, top, dim, key) + w)))

\* A faulty read: d[top][dim][key] = 0 in place of the expression.
Touch_resets(d, top, dim, key) ==
  Put(d, top,
      Put(Level2(d, top), dim,
          Put(Level3(d, top, dim), key, 0)))

\* d after the expression d[top][dim][key] is read: a missing cell is
\* created holding 0.
Touch(d, top, dim, key) == Incr(d, top, dim, key, 0)

\* f"{os}/{arch}"
OsArch(os, arch) == os \o "/" \o arch

\* A faulty store: the statement that counts the OS is missing.
StoreLine_without_os(d, day, r, w) ==
  LET d1 == Incr(d, DateKey(day), "version", r.version, w)
      d2 == Incr(d1, DateKey(day), "version_major", r.version_major, w)
  IN  Incr(d2, DateKey(day), "osarch", OsArch(r.os, r.arch), w)

\* A faulty store: a line counts at least once, whatever its weight.
StoreLine_at_least_one(d, day, r, w) ==
  LET w1 == IF w < 1 THEN 1 ELSE w
      d1 == Incr(d, DateKey(day), "version", r.version, w1)
      d2 == Incr(d1, DateKey(day), "version_major", r.version_major, w1)
      d3 == Incr(d2, DateKey(day), "osarch", OsArch(r.os, r.arch), w1)
  IN  Incr(d3, DateKey(day), "os", r.os, w1)

\* A faulty store: the OS/architecture pair is counted under the OS and
\* under the architecture, two keys of the osarch dimension.
StoreLine_two_osarch_keys(d, day, r, w) ==
  LET d1 == Incr(d, DateKey(day), "version", r.version, w)
      d2 == Incr(d1, DateKey(day), "version_major", r.version_major, w)
      d3 == Incr(d2, DateKey(day), "osarch", r.os, w)
      d4 == Incr(d3, DateKey(day), "osarch", r.arch, w)
  IN  Incr(d4, DateKey(day), "os", r.os, w)

\* The four statements that store one line ("Store data").
StoreLine(d, day, r, w) ==
  LET d1 == Incr(d, DateKey(day), "version", r.version, w)
      d2 == Incr(d1, DateKey(day), "version_major", r.version_major, w)
      d3 == Incr(d2, DateKey(day), "osarch", OsArch(r.os, r.arch), w)
  IN  Incr(d3, DateKey(day), "os", r.os, w)

(***************************************************************************)
(* State                                                                   *)
(***************************************************************************)

\* Bounds on the number of lines read from the mailbox and from the logs.
MaxNativeLines == 4
MaxLogLines == 1

VARIABLES
  args,          \* the parsed options: [start, end]
  pc,            \* main: "ingest", "done", or "aborted" by an exception
  error,         \* the exception that ended the run, "" if none
  data,          \* the Aggregation Store
  nat_pc,        \* read_native_file: "unopened", "reading", "closed"
  nat,           \* its locals: [n, date, in_header, date_warning]
  log_pc,        \* read_log_file: "idle" (between files), "reading"
  log_n,         \* the lines read from the logs so far
  last,          \* the line read by the last step and what became of it
  events,        \* the bag of the lines stored so far (history)
  fs,            \* the CSV files: keyname -> [header, rows]
  summary        \* download_data.txt: << >>, or << total_total >> once written

vars == << args, pc, error, data, nat_pc, nat, log_pc, log_n, last, events,
           fs, summary >>

\* header_date is not a local of the code: it records the date that the
\* header section of the current message has given so far.
NatLocals == [n |-> 0, date |-> NoDate, in_header |-> TRUE,
              date_warning |-> "unbound", header_date |-> NoDate]

NoLine == [src |-> "none", line |-> "", stored |-> FALSE, day |-> NoDate,
           r |-> Dropped("")]

Init ==
  /\ args \in Windows
  /\ pc = "ingest"
  /\ error = ""
  /\ data = EmptyFn
  /\ nat_pc = "unopened"
  /\ nat = NatLocals
  /\ log_pc = "idle"
  /\ log_n = 0
  /\ last = NoLine
  /\ events = EmptyBag
  /\ fs = EmptyFn
  /\ summary = << >>

\* An exception that nothing catches ends the run.
Raise(exc) ==
  /\ pc' = "aborted"
  /\ error' = exc

\* A faulty store: every line counts once, its hit count being ignored.
Stored_weight_one(src, line, day, r) ==
  /\ data' = StoreLine(data, day, r, 1)
  /\ last' = [src |-> src, line |-> line, stored |-> TRUE, day |-> day, r |-> r]
  /\ events' = events (+) SetToBag({[src |-> src, day |-> day, r |-> r]})

\* The line just read, stored under day with the keys of r.
Stored(src, line, day, r) ==
  /\ data' = StoreLine(data, day, r, r.hits)
  /\ last' = [src |-> src, line |-> line, stored |-> TRUE, day |-> day, r |-> r]
  /\ events' = events (+) SetToBag({[src |-> src, day |-> day, r |-> r]})

\* The line just read, left out of the store.
NotStored(src, line, why) ==
  /\ data' = data
  /\ last' = [src |-> src, line |-> line, stored |-> FALSE, day |-> NoDate,
              r |-> Dropped(why)]
  /\ events' = events

(***************************************************************************)
(* read_native_file                                                        *)
(***************************************************************************)

\* open(native_file) succeeds: the store is created and the loop starts.
OpenNative ==
  /\ pc = "ingest" /\ nat_pc = "unopened"
  /\ nat_pc' = "reading"
  /\ nat' = NatLocals
  /\ UNCHANGED << args, pc, error, data, log_pc, log_n, last, events, fs, summary >>

\* open(native_file) raises.
OpenNativeFails ==
  /\ pc = "ingest" /\ nat_pc = "unopened"
  /\ Raise("OSError")
  /\ UNCHANGED << args, data, nat_pc, nat, log_pc, log_n, last, events, fs, summary >>

\* A faulty window test: the end of the window is not looked at.
OutOfWindow_only_start(day) == Timestamp(day) < args.start

\* The line is outside the reporting window of its message's date.
OutOfWindow(day) ==
  Timestamp(day) < args.start \/ Timestamp(day) > args.end

\* The body of the loop for the line l: shape is the envelope test the line
\* passes, parsed the date it holds if it is a "Date:" line, decoded what its
\* path gives if it is a body line.
NativeBody(l, shape, parsed, decoded) ==
  LET keep == /\ pc' = pc /\ error' = error
      read == [nat EXCEPT !.n = nat.n + 1]
  IN
  /\ pc = "ingest" /\ nat_pc = "reading"
  /\ nat.n < MaxNativeLines
  /\ IF shape = "boundary" THEN
       \* line[:5] == "From ": a new email
       /\ nat' = [read EXCEPT !.date = NoDate, !.date_warning = "False",
                              !.in_header = TRUE, !.header_date = NoDate]
       /\ NotStored("native", l, "boundary") /\ keep
     ELSE IF shape = "corruption" THEN
       \* "From " in line
       /\ nat' = read
       /\ NotStored("native", l, "corruption") /\ keep
     ELSE IF shape = "date" THEN
       \* line[:5] == "Date:"
       LET date == IF parsed # NoDate THEN parsed ELSE nat.date
       IN  IF date = NoDate
           THEN \* datetime(date.year, ...) on None
                /\ nat' = read
                /\ NotStored("native", l, "raise") /\ Raise("AttributeError")
           ELSE /\ nat' = [read EXCEPT !.date = date,
                                       !.header_date = IF nat.in_header THEN date
                                                       ELSE @]
                /\ NotStored("native", l, "date") /\ keep
     ELSE IF nat.in_header /\ shape = "blank" THEN
       /\ nat' = [read EXCEPT !.in_header = FALSE]
       /\ NotStored("native", l, "end_of_header") /\ keep
     ELSE IF nat.in_header THEN
       /\ nat' = read
       /\ NotStored("native", l, "header") /\ keep
     ELSE IF nat.date = NoDate THEN
       \* date.timestamp() on None
       /\ nat' = read
       /\ NotStored("native", l, "raise") /\ Raise("AttributeError")
     ELSE IF OutOfWindow(nat.date) THEN
       IF nat.date_warning = "unbound"
       THEN /\ nat' = read
            /\ NotStored("native", l, "raise") /\ Raise("UnboundLocalError")
       ELSE /\ nat' = [read EXCEPT !.date_warning = "True"]
            /\ NotStored("native", l, "out_of_window") /\ keep
     ELSE IF decoded.ok THEN
       /\ nat' = read
       /\ Stored("native", l, nat.date, decoded) /\ keep
     ELSE
       /\ nat' = read
       /\ NotStored("native", l, decoded.why) /\ keep
  /\ UNCHANGED << args, nat_pc, log_pc, log_n, fs, summary >>

\* One iteration of "for line in f" with the next line of the mailbox.
NativeLine(l) == NativeBody(l, NativeShape[l], NativeDate[l], NativeDecoded[l])

\* The end of the mailbox: read_native_file returns the store.
NativeEOF ==
  /\ pc = "ingest" /\ nat_pc = "reading"
  /\ nat_pc' = "closed"
  /\ nat' = NatLocals
  /\ last' = NoLine
  /\ UNCHANGED << args, pc, error, data, log_pc, log_n, events, fs, summary >>

(***************************************************************************)
(* read_log_file                                                           *)
(***************************************************************************)

\* open(log_file) succeeds for the next file of log_files.  In main the
\* mailbox has been read before (in_order).
OpenLog(in_order) ==
  /\ pc = "ingest" /\ log_pc = "idle"
  /\ in_order => nat_pc = "closed"
  /\ log_n < MaxLogLines
  /\ log_pc' = "reading"
  /\ last' = NoLine
  /\ UNCHANGED << args, pc, error, data, nat_pc, nat, log_n, events, fs, summary >>

\* open(log_file) raises.
OpenLogFails(in_order) ==
  /\ pc = "ingest" /\ log_pc = "idle"
  /\ in_order => nat_pc = "closed"
  /\ Raise("OSError")
  /\ UNCHANGED << args, data, nat_pc, nat, log_pc, log_n, last, events, fs, summary >>

\* The body of the loop for the line l with the columns cols; decoded is
\* what its filename gives.
LogBody(l, cols, decoded) ==
  LET keep == /\ pc' = pc /\ error' = error
  IN
  /\ pc = "ingest" /\ log_pc = "reading"
  /\ log_n < MaxLogLines
  /\ log_n' = log_n + 1
  /\ IF Len(cols) < 1 THEN
       \* data["timestamp"] of an empty dict
       NotStored("log", l, "raise") /\ Raise("KeyError")
     ELSE IF ~IsInt(cols[1]) THEN
       NotStored("log", l, "raise") /\ Raise("ValueError")
     ELSE IF ToInt(cols[1]) < args.start \/ ToInt(cols[1]) > args.end THEN
       NotStored("log", l, "out_of_window") /\ keep
     ELSE IF Len(cols) < 2 THEN
       NotStored("log", l, "raise") /\ Raise("KeyError")
     ELSE IF cols[2] # "END" THEN
       NotStored("log", l, "status") /\ keep
     ELSE IF Len(cols) < 3 THEN
       NotStored("log", l, "raise") /\ Raise("KeyError")
     ELSE IF decoded.ok THEN
       Stored("log", l, DayOf(ToInt(cols[1])), decoded) /\ keep
     ELSE
       NotStored("log", l, decoded.why) /\ keep
  /\ UNCHANGED << args, nat_pc, nat, log_pc, fs, summary >>

\* One iteration of "for line in f" with the next line of a log.
LogLine(l) == LogBody(l, LogColumns[l], LogDecoded[l])

\* The end of a log file: read_log_file returns.
LogEOF ==
  /\ pc = "ingest" /\ log_pc = "reading"
  /\ log_pc' = "idle"
  /\ last' = NoLine
  /\ UNCHANGED << args, pc, error, data, nat_pc, nat, log_n, events, fs, summary >>

(***************************************************************************)
(* get_keys and write_csvs                                                 *)
(***************************************************************************)

Dimensions == << "version_major", "version", "os", "osarch" >>

\* The keys of fs in the order of the dict: the daily files, then the
\* cumulative ones.
FsNames == << "version_major", "version", "os", "osarch",
              "cum_version_major", "cum_version", "cum_os", "cum_osarch" >>

\* s.lstrip(chars): the leading characters that are in chars are dropped.
RECURSIVE LStripChars(_, _)
LStripChars(s, chars) ==
  IF Len(s) > 0 /\ Contains(chars, At(s, 1)) THEN LStripChars(Tail(s), chars)
  ELSE s

\* keyname.lstrip("cum_")
DimOf(keyname) == LStripChars(keyname, "cum_")

\* A faulty key index: the keys of one date only.
KeysOf_one_date(d, dim) ==
  IF DOMAIN d = {} THEN {}
  ELSE DOMAIN Level3(d, CHOOSE top \in DOMAIN d : TRUE, dim)

\* The union over the dates of the keys of one dimension.
KeysOf(d, dim) == UNION { DOMAIN Level3(d, top, dim) : top \in DOMAIN d }

\* list(map(int, v.split("."))) succeeds.
VersionParses(v) ==
  \A i \in 1..Len(Split(v, ".")) : IsInt(Split(v, ".")[i])

\* list(map(int, v.split(".")))
VersionKey(v) ==
  [i \in 1..Len(Split(v, ".")) |-> ToInt(Split(v, ".")[i])]

\* list.sort() of a set of strings.
RECURSIVE SortStrings(_)
SortStrings(S) ==
  IF S = {} THEN << >>
  ELSE LET m == CHOOSE x \in S : \A y \in S : ~StrLess(y, x)
       IN  << m >> \o SortStrings(S \ {m})

\* list.sort(key=lambda v: list(map(int, v.split(".")))) of a set of
\* versions.  Versions with equal keys (8.9 and 8.09) stay in the order of
\* the set, which is arbitrary; here one such order is taken.
RECURSIVE SortVersions(_)
SortVersions(S) ==
  IF S = {} THEN << >>
  ELSE LET m == CHOOSE x \in S :
                  \A y \in S : ~IntListLess(VersionKey(y), VersionKey(x))
       IN  << m >> \o SortVersions(S \ {m})

\* get_keys raises ValueError: a component of a version is not an integer.
GetKeysRaises(d) ==
  \E v \in KeysOf(d, "version_major") \cup KeysOf(d, "version") :
    ~VersionParses(v)

get_keys(d) ==
  [version_major |-> SortVersions(KeysOf(d, "version_major")),
   version       |-> SortVersions(KeysOf(d, "version")),
   os            |-> SortStrings(KeysOf(d, "os")),
   osarch        |-> SortStrings(KeysOf(d, "osarch"))]

\* sum of a sequence of integers
RECURSIVE SumSeq(_)
SumSeq(q) == IF Len(q) = 0 THEN 0 ELSE q[1] + SumSeq(Tail(q))

\* The store after d[top][dim][key] has been read for every key of ks.
RECURSIVE TouchAll(_, _, _, _)
TouchAll(d, top, dim, ks) ==
  IF Len(ks) = 0 THEN d
  ELSE TouchAll(Touch(d, top, dim, ks[1]), top, dim, Tail(ks))

\* A faulty accumulation: data["cum"][keyname][key] = data[date][dim][key],
\* an assignment in place of "+=".
RECURSIVE Accumulate_overwrites(_, _, _, _, _)
Accumulate_overwrites(d, day, keyname, dim, ks) ==
  IF Len(ks) = 0 THEN d
  ELSE LET d1 == Touch(d, DateKey(day), dim, ks[1])
           d2 == Put(d1, CumKey,
                     Put(Level2(d1, CumKey), keyname,
                         Put(Level3(d1, CumKey, keyname), ks[1],
                             Cell(d1, DateKey(day), dim, ks[1]))))
       IN  Accumulate_overwrites(d2, day, keyname, dim, Tail(ks))

\* The store after data["cum"][keyname][key] += data[date][dim][key] for
\* every key of ks.
RECURSIVE Accumulate(_, _, _, _, _)
Accumulate(d, day, keyname, dim, ks) ==
  IF Len(ks) = 0 THEN d
  ELSE LET d1 == Touch(d, DateKey(day), dim, ks[1])
           d2 == Incr(d1, CumKey, keyname, ks[1],
                      Cell(d1, DateKey(day), dim, ks[1]))
       IN  Accumulate(d2, day, keyname, dim, Tail(ks))

\* The body of "for (keyname, f) in fs.items()" for one date: st holds the
\* store, the files and total_total.
RowWritten(st, day, keyname, keys) ==
  LET dim == DimOf(keyname)
      ks  == keys[dim]
      d1  == IF StartsWith(keyname, "cum_")
             THEN Accumulate(st.data, day, keyname, dim, ks)
             ELSE TouchAll(st.data, DateKey(day), keyname, ks)
      cells == IF StartsWith(keyname, "cum_")
               THEN [i \in 1..Len(ks) |-> Cell(d1, CumKey, keyname, ks[i])]
               ELSE [i \in 1..Len(ks) |-> Cell(d1, DateKey(day), keyname, ks[i])]
      total == SumSeq(cells)
      row   == [day |-> day, cells |-> cells, total |-> total]
  IN  [data |-> d1,
       fs |-> [st.fs EXCEPT ![keyname].rows = Append(@, row)],
       total_total |-> IF keyname = "os" THEN st.total_total + total
                       ELSE st.total_total]

\* The same, the state before being computed once (a binding by value).
WriteRow(before, day, keyname, keys) ==
  CHOOSE after \in { RowWritten(st, day, keyname, keys) : st \in { before } } :
    TRUE

RECURSIVE WriteDate(_, _, _, _)
WriteDate(st, day, k, keys) ==
  IF k > Len(FsNames) THEN st
  ELSE WriteDate(WriteRow(st, day, FsNames[k], keys), day, k + 1, keys)

\* "for date in dates", the dates outside of the range being skipped.
RECURSIVE WriteDates(_, _, _, _)
WriteDates(st, days, i, keys) ==
  IF i > Len(days) THEN st
  ELSE IF ~(Timestamp(days[i]) >= args.start /\ Timestamp(days[i]) <= args.end)
       THEN WriteDates(st, days, i + 1, keys)
       ELSE WriteDates(WriteDate(st, days[i], 1, keys), days, i + 1, keys)

\* A faulty sort: the dates in descending order.
RECURSIVE SortDays_descending(_)
SortDays_descending(S) ==
  IF S = {} THEN << >>
  ELSE LET m == CHOOSE x \in S : \A y \in S : x >= y
       IN  << m >> \o SortDays_descending(S \ {m})

\* dates = list(data.keys()); dates.sort()
RECURSIVE SortDays(_)
SortDays(S) ==
  IF S = {} THEN << >>
  ELSE LET m == CHOOSE x \in S : \A y \in S : x <= y
       IN  << m >> \o SortDays(S \ {m})

\* The eight files after open(..., "w") and the header row
\* "Date,<keys>,Total".
OpenFiles(keys) ==
  [k \in { FsNames[i] : i \in 1..Len(FsNames) } |->
     [header |-> keys[DimOf(k)], rows |-> << >>]]

\* write_csvs started while a log file is still being read.
WriteCsvs_early ==
  /\ pc = "ingest" /\ nat_pc = "closed"
  /\ IF GetKeysRaises(data) THEN
       /\ Raise("ValueError")
       /\ UNCHANGED << data, fs, summary >>
     ELSE
       \E keys \in { get_keys(data) } :
       \E st \in { WriteDates([data |-> data, fs |-> OpenFiles(keys),
                                total_total |-> 0],
                               SortDays({ top[2] : top \in DOMAIN data }),
                               1, keys) } :
           /\ data' = st.data
           /\ fs' = st.fs
           /\ summary' = << st.total_total >>
           /\ pc' = "done"
           /\ error' = error
  /\ last' = NoLine
  /\ UNCHANGED << args, nat_pc, nat, log_pc, log_n, events >>

\* write_csvs: the keys, the eight files with their header row, the rows
\* and the summary; or the ValueError of get_keys, before any file is
\* opened.
WriteCsvs ==
  /\ pc = "ingest" /\ nat_pc = "closed" /\ log_pc = "idle"
  /\ IF GetKeysRaises(data) THEN
       /\ Raise("ValueError")
       /\ UNCHANGED << data, fs, summary >>
     ELSE
       \* keys = get_keys(data) is computed once, before the files are opened
       \E keys \in { get_keys(data) } :
       \E st \in { WriteDates([data |-> data, fs |-> OpenFiles(keys),
                                total_total |-> 0],
                               SortDays({ top[2] : top \in DOMAIN data }),
                               1, keys) } :
           /\ data' = st.data
           /\ fs' = st.fs
           /\ summary' = << st.total_total >>
           /\ pc' = "done"
           /\ error' = error
  /\ last' = NoLine
  /\ UNCHANGED << args, nat_pc, nat, log_pc, log_n, events >>

(***************************************************************************)
(* main                                                                    *)
(***************************************************************************)

\* main: the mailbox first, then the logs one after the other, then the
\* report.
Next ==
  \/ OpenNative
  \/ OpenNativeFails
  \/ \E l \in NativeLines : NativeLine(l)
  \/ NativeEOF
  \/ OpenLog(TRUE)
  \/ OpenLogFails(TRUE)
  \/ \E l \in LogLines : LogLine(l)
  \/ LogEOF
  \/ WriteCsvs

Spec == Init /\ [][Next]_vars

\* The two ingestors in any order and with their lines interleaved, over
\* one store; the report follows when both are through.
NextAnyOrder ==
  \/ OpenNative
  \/ OpenNativeFails
  \/ \E l \in NativeLines : NativeLine(l)
  \/ NativeEOF
  \/ OpenLog(FALSE)
  \/ OpenLogFails(FALSE)
  \/ \E l \in LogLines : LogLine(l)
  \/ LogEOF
  \/ WriteCsvs

SpecAnyOrder == Init /\ [][NextAnyOrder]_vars

(***************************************************************************)
(* Properties                                                              *)
(***************************************************************************)

\* The cells of a store, as << top, dimension, key >>.
CellsOf(d) ==
  UNION { UNION { { << top, dim, key >> : key \in DOMAIN d[top][dim] } :
                  dim \in DOMAIN d[top] } :
          top \in DOMAIN d }

Value(d, c) == Cell(d, c[1], c[2], c[3])

\* The four cells of one line: its version, major version, OS and OS/arch
\* pair on its day.
FourCells(day, version, version_major, os, arch) ==
  { << DateKey(day), "version", version >>,
    << DateKey(day), "version_major", version_major >>,
    << DateKey(day), "os", os >>,
    << DateKey(day), "osarch", os \o "/" \o arch >> }

\* after is before with w added to each of the cells (created at 0 when
\* missing), and nothing else changed.
AddsExactly(before, after, cells, w) ==
  /\ CellsOf(after) = CellsOf(before) \cup cells
  /\ \A c \in CellsOf(after) :
       Value(after, c) = Value(before, c) + (IF c \in cells THEN w ELSE 0)

DimensionSet == { "version", "version_major", "os", "osarch" }

EventKey(e, dim) ==
  IF dim = "version" THEN e.r.version
  ELSE IF dim = "version_major" THEN e.r.version_major
  ELSE IF dim = "os" THEN e.r.os
  ELSE e.r.os \o "/" \o e.r.arch

RECURSIVE SumWeights(_, _)
SumWeights(es, bag) ==
  IF es = {} THEN 0
  ELSE LET e == CHOOSE x \in es : TRUE
       IN  CopiesIn(e, bag) * e.r.hits + SumWeights(es \ {e}, bag)

\* The store that a bag of stored lines determines, whatever the order in
\* which they were stored.
StoreOf(bag) ==
  LET es == BagToSet(bag) IN
  [top \in { DateKey(e.day) : e \in es } |->
     [dim \in DimensionSet |->
        [key \in { EventKey(e, dim) : e \in { x \in es : DateKey(x.day) = top } } |->
           SumWeights({ e \in es : DateKey(e.day) = top /\ EventKey(e, dim) = key },
                      bag)]]]

OnSkipList(filename) ==
  \/ Contains(filename, "sha256sum")
  \/ StartsWith(filename, "condordebugsyms")
  \/ StartsWith(filename, "condor-drone-")

\* What a log line says, read off its columns.
LogFacts ==
  [l \in LogLines |->
     LET cols == Columns(l) IN
     [ts       |-> IF Len(cols) >= 1 /\ IsInt(cols[1]) THEN ToInt(cols[1]) ELSE NoDate,
      is_end   |-> Len(cols) >= 2 /\ cols[2] = "END",
      filename |-> IF Len(cols) >= 3 THEN cols[3] ELSE "",
      skip     |-> Len(cols) >= 3 /\ OnSkipList(cols[3]),
      decodes  |-> Len(cols) >= 3 /\ LogDecoded[l].ok]]

\* The step reads a line of a log.
LogStep == log_n' # log_n

\* C2: a log line changes the store iff its timestamp lies in [start, end],
\* its status is END, its filename is not on the skip-list and decodes; it
\* then adds 1 to exactly the four cells (version, version_major, os,
\* "{os}/{arch}") of the timestamp's day; any other line leaves the store
\* unchanged.
C2_LogLineContract ==
  [][ LogStep =>
        LET l == last'.line
            f == LogFacts[l]
            r == LogDecoded[l]
        IN  IF /\ f.ts # NoDate /\ f.ts >= args.start /\ f.ts <= args.end
               /\ f.is_end /\ ~f.skip /\ f.decodes
            THEN /\ data' # data
                 /\ AddsExactly(data, data',
                                FourCells(f.ts \div 86400, r.version,
                                          r.version_major, r.os, r.arch), 1)
            ELSE data' = data ]_vars

\* The line of the specification's example has been stored.
C2_Witness ==
  /\ last.src = "log" /\ last.stored
  /\ last.line = "1551455077 END condor-8.9.0-462330-Windows-x64.zip extra"
  /\ Cell(data, DateKey(17956), "version", "8.9.0") = 1
  /\ Cell(data, DateKey(17956), "version_major", "8.9") = 1
  /\ Cell(data, DateKey(17956), "os", "Windows") = 1
  /\ Cell(data, DateKey(17956), "osarch", "Windows/x86-64") = 1

\* Which package families a digest line matches, and what it says: the
\* last path component before the hit count, the count, and the
\* architecture token of a binary-family name.
NativeFacts ==
  [l \in NativeLines |->
     LET raw   == Raw(l)
         rpm   == ReMatch(re_rpm, raw)
         deb   == ReMatch(re_deb, raw)
         parts == Split(l, "/")
         words == SplitWhitespace(parts[Len(parts)])
         count == SplitWhitespace(Split(l, "(")[Len(Split(l, "("))])
     IN  [binary   |-> rpm.ok \/ deb.ok,
          source   |-> ReMatch(re_src_rpm, raw).ok \/ ReMatch(re_src_deb, raw).ok,
          tarball  |-> ReMatch(re_tarball, raw).ok \/ ReMatch(re_src_tarball, raw).ok,
          token    |-> IF rpm.ok THEN rpm.groups[2]
                       ELSE IF deb.ok THEN deb.groups[2] ELSE "",
          filename |-> IF Len(words) >= 1 THEN words[1] ELSE "",
          hits     |-> IF Len(count) >= 1 /\ IsInt(count[1])
                       THEN ToInt(count[1]) ELSE NoDate]]

\* The step reads a line of the digest.
NativeStep == nat_pc = "reading" /\ nat_pc' = "reading" /\ nat'.n = nat.n + 1

\* The line read by the step is a candidate line in the body of a message
\* whose date lies in the window.
InWindowBody(l) ==
  /\ ~nat.in_header /\ nat.date # NoDate /\ ~OutOfWindow(nat.date)
  /\ NativeShape[l] \in { "text", "blank" }
  /\ IsCandidate(Raw(l))

LabelOfFirstRule(rules, token) ==
  LET hit == { i \in 1..Len(rules) :
                 ReSearch(Compile(rules[i][1], TRUE), token) }
  IN  IF hit = {} THEN "Unknown"
      ELSE rules[CHOOSE i \in hit : \A j \in hit : i <= j][2]

\* The labels expected for the tokens of the input lines.
ExpectedLabels ==
  [src \in { "log", "native" } |->
     IF src = "log"
     THEN [l \in LogLines |->
             [os   |-> LabelOfFirstRule(OS_RULES, LogFacts[l].filename),
              arch |-> LabelOfFirstRule(ARCH_RULES, LogFacts[l].filename)]]
     ELSE [l \in NativeLines |->
             [os   |-> LabelOfFirstRule(OS_RULES, NativeFacts[l].filename),
              arch |-> IF NativeFacts[l].binary
                       THEN LabelOfFirstRule(ARCH_RULES, NativeFacts[l].token)
                       ELSE LabelOfFirstRule(ARCH_RULES, NativeFacts[l].filename)]]]

\* The lines whose OS and architecture come from classifying a token: every
\* line of a log; in the digest the binary family has a fixed OS and the
\* source family fixed labels.
Classified(src, l, what) ==
  IF src = "log" THEN TRUE
  ELSE \/ NativeDecoded[l].family = "tarball"
       \/ NativeDecoded[l].family = "binary" /\ what = "arch"

\* C4: classification is deterministic and first-match-wins.  The label
\* stored for a token is that of the first rule, in the declared order,
\* whose pattern is found in it case-insensitively; it is "Unknown" exactly
\* when no rule matches.
C4_FirstMatchWins ==
  (last.src \in { "log", "native" } /\ last.stored) =>
     LET want == ExpectedLabels[last.src][last.line] IN
     /\ Classified(last.src, last.line, "os") => last.r.os = want.os
     /\ Classified(last.src, last.line, "arch") => last.r.arch = want.arch
     /\ << DateKey(last.day), "osarch", last.r.os \o "/" \o last.r.arch >>
          \in CellsOf(data)

\* A name that a Linux rule ("_sol_") matches as well has the label of the
\* earlier rule ("sun4u"), and is counted under it.
C4_Witness ==
  /\ last.src = "log" /\ last.stored
  /\ last.line = "1551541477 END condor-6.8.0-sun4u_sol_5.9-dynamic.tar.gz"
  /\ last.r.os = OTHER_
  /\ \E i, j \in 1..Len(OS_RULES) :
       /\ i < j /\ OS_RULES[i][2] # OS_RULES[j][2]
       /\ ReSearch(OS_MAP[i].re, LogFacts[last.line].filename)
       /\ ReSearch(OS_MAP[j].re, LogFacts[last.line].filename)
  /\ Cell(data, DateKey(last.day), "os", OTHER_) = 1

\* C5 as stated: no stored line has a filename on the skip-list.
C5_SkipListNeverStored ==
  (last.src \in { "log", "native" } /\ last.stored) =>
     ~OnSkipList(IF last.src = "log" THEN LogFacts[last.line].filename
                 ELSE NativeFacts[last.line].filename)

RECURSIVE SumCells(_, _)
SumCells(d, cells) ==
  IF cells = {} THEN 0
  ELSE LET c == CHOOSE x \in cells : TRUE
       IN  Value(d, c) + SumCells(d, cells \ {c})

\* C6 as stated: the total of the summary file equals the sum of the whole
\* store's os dimension, over every date and every OS key.
C6_TotalIsStoreSum ==
  pc = "done" =>
    summary = << SumCells(data, { c \in CellsOf(data) :
                                    c[1][1] = "date" /\ c[2] = "os" }) >>

\* The rows of a file.
Rows(keyname) == fs[keyname].rows

\* C7: in every cumulative file each column is non-decreasing from one row
\* to the next, and the last row equals, column by column, the sum of the
\* rows of the daily file of the same dimension.
C7_CumulativeRows ==
  pc = "done" =>
    \A i \in 1..Len(Dimensions) :
      LET daily == Rows(Dimensions[i])
          cum   == Rows("cum_" \o Dimensions[i])
          n     == Len(cum)
      IN  /\ Len(daily) = n
          /\ \A k \in 1..(n - 1) :
               \A col \in 1..Len(cum[k].cells) :
                 cum[k].cells[col] <= cum[k + 1].cells[col]
          /\ n > 0 =>
               \A col \in 1..Len(cum[n].cells) :
                 cum[n].cells[col]
                   = SumSeq([k \in 1..n |-> daily[k].cells[col]])

\* Two dates have been reported, with downloads on both: a cumulative
\* column grows from the first row to the second.
C7_Witness ==
  /\ pc = "done"
  /\ Len(Rows("cum_os")) = 2
  /\ Rows("os")[1].total > 0 /\ Rows("os")[2].total > 0
  /\ \E col \in 1..Len(Rows("cum_os")[1].cells) :
       /\ Rows("cum_os")[1].cells[col] > 0
       /\ Rows("cum_os")[1].cells[col] < Rows("cum_os")[2].cells[col]

\* The step of an ingestor: it reads one line.
IngestStep == LogStep \/ NativeStep

\* The weight of the line the step reads: 1 for a log line, the count in
\* front of "hit" for a digest line.
WeightOfStep ==
  IF LogStep THEN 1 ELSE NativeFacts[last'.line].hits

\* C8 as stated: every increment applied by either ingestor has a positive
\* integer weight, 1 for a log line and the parsed count N >= 1 for a digest
\* line.
C8_WeightsPositive ==
  [][ (IngestStep /\ last'.stored) =>
        /\ WeightOfStep >= 1
        /\ AddsExactly(data, data',
                       FourCells(last'.day, last'.r.version,
                                 last'.r.version_major, last'.r.os,
                                 last'.r.arch), WeightOfStep) ]_vars

\* C8, amended: every increment applied by either ingestor has a
\* non-negative integer weight: 1 for a log line, the parsed count N >= 0
\* for a digest line.  A stored line adds that weight to its four cells, a
\* count of 0 creating the cells it does not find; a line that is not stored
\* changes no cell.
C8_WeightsNonNegative ==
  [][ IngestStep =>
        IF last'.stored
        THEN /\ WeightOfStep >= 0
             /\ LogStep => WeightOfStep = 1
             /\ AddsExactly(data, data',
                            FourCells(last'.day, last'.r.version,
                                      last'.r.version_major, last'.r.os,
                                      last'.r.arch), WeightOfStep)
        ELSE data' = data ]_vars

\* A digest line with "(0 hits)" has been stored: its cells exist and hold
\* 0.
C8_Witness ==
  /\ last.src = "native" /\ last.stored
  /\ last.line = "/condor/debian/condor_8.9.0-1_amd64.deb (0 hits)"
  /\ << DateKey(last.day), "version", "8.9.0" >> \in CellsOf(data)
  /\ Cell(data, DateKey(last.day), "version", "8.9.0") = 0

\* The number of "." in s.
RECURSIVE Dots(_)
Dots(s) ==
  IF Len(s) = 0 THEN 0
  ELSE (IF Head(s) = "." THEN 1 ELSE 0) + Dots(Tail(s))

\* major is the first two dot-separated components of version, or the whole
\* of it when it has no more than two.
FirstTwoComponents(major, version) ==
  /\ StartsWith(version, major)
  /\ \/ major = version /\ Dots(version) <= 1
     \/ /\ Len(major) < Len(version)
        /\ At(version, Len(major) + 1) = "."
        /\ Dots(major) = 1

\* C9 as stated: the version_major stored for a line is the first two
\* dot-separated components of the version stored for it, and a strict
\* prefix of that version.
C9_MajorIsStrictPrefix ==
  (last.src \in { "log", "native" } /\ last.stored) =>
     /\ FirstTwoComponents(last.r.version_major, last.r.version)
     /\ Dots(last.r.version_major) = 1
     /\ last.r.version_major # last.r.version

\* C9, amended: the version_major stored for a line is the first two
\* dot-separated components of the version stored for the same line, or the
\* whole version when it has no more than two components; it is a prefix of
\* the version, and a strict one only when the version has more than two
\* components.
C9_MajorIsPrefix ==
  (last.src \in { "log", "native" } /\ last.stored) =>
     /\ FirstTwoComponents(last.r.version_major, last.r.version)
     /\ << DateKey(last.day), "version", last.r.version >> \in CellsOf(data)
     /\ << DateKey(last.day), "version_major", last.r.version_major >>
          \in CellsOf(data)

\* A two-component version has been stored: its major version is the
\* version itself.
C9_Witness ==
  /\ last.src = "log" /\ last.stored
  /\ last.line = "1551541477 END condor_8.9-1_amd64.deb"
  /\ last.r.version = "8.9" /\ last.r.version_major = "8.9"
  /\ Cell(data, DateKey(last.day), "version_major", "8.9") = 1

\* C10 as stated: every version_major key of the store has exactly two
\* dot-separated components that parse as integers.
C10_MajorKeysWellFormed ==
  \A key \in KeysOf(data, "version_major") :
    /\ Len(Split(key, ".")) = 2
    /\ \A i \in 1..2 : IsInt(Split(key, ".")[i])

\* C11 as stated, for the logs and the report: when every input file can be
\* opened the run is never aborted by the content of a log line (blank,
\* fewer than three columns, a timestamp that is not an integer) nor by a
\* key of the store when the key index is built.
C11_NoContentAborts ==
  ~(pc = "aborted" /\ error \in { "KeyError", "ValueError" })

\* C12 as stated: the digest ingestor never aborts the run, whatever its
\* Date: headers are (malformed, missing, duplicated, in the body) and
\* whether or not the mailbox begins with a boundary line.
C12_DigestNeverAborts ==
  ~(/\ pc = "aborted" /\ nat_pc = "reading"
    /\ error \in { "AttributeError", "UnboundLocalError" })

\* C13 as stated: while the header date of the current message lies outside
\* [start, end], no line of its body (no line up to the next boundary line)
\* changes the store, and a boundary line starts a new message whatever the
\* date of the message before it.
C13_OutOfWindowMessageSkipped ==
  [][ NativeStep =>
        LET shape == NativeShape[last'.line]
        IN  /\ ( /\ ~nat.in_header /\ shape # "boundary"
                 /\ nat.header_date # NoDate /\ OutOfWindow(nat.header_date) )
               => data' = data
            /\ shape = "boundary"
               => /\ nat'.in_header /\ nat'.date = NoDate
                  /\ nat'.date_warning = "False" /\ data' = data ]_vars

\* Some report output exists: a report file has been opened or the summary
\* written.
ReportExists == fs # EmptyFn \/ summary # << >>

\* C14: no report file is written before every input file has been opened
\* and read to its end: report output exists only once the run is done, the
\* mailbox closed and no log file open, and nothing is ingested afterwards;
\* a run aborted because the mailbox or a log file cannot be opened, or for
\* any other reason, has no report output.
C14_ReportOnlyAfterIngestion ==
  /\ ReportExists => pc = "done" /\ nat_pc = "closed" /\ log_pc = "idle"
  /\ pc = "aborted" => ~ReportExists
  /\ pc = "done" => ReportExists /\ ~ENABLED Next

\* A log file could not be opened after lines had been stored: the run is
\* aborted and nothing has been written.
C14_Witness ==
  /\ pc = "aborted" /\ error = "OSError"
  /\ nat_pc = "closed" /\ log_pc = "idle"
  /\ data # EmptyFn /\ log_n > 0
  /\ ~ReportExists

\* The calendar days whose midnight lies in the window [start, end].
DaysOfWindow ==
  { d \in DayOf(args.start)..DayOf(args.end) :
      Timestamp(d) >= args.start /\ Timestamp(d) <= args.end }

\* The dates of the store.
StoredDays == { top[2] : top \in { t \in DOMAIN data : t[1] = "date" } }

\* The days of the rows of a table, in the order of the rows.
RowDays(keyname) == [i \in 1..Len(Rows(keyname)) |-> Rows(keyname)[i].day]

\* The rows of a table are in ascending order of date, no date twice, and
\* the Total of each row is the sum of its key columns.
RowsAscendingWithTotals(keyname) ==
  /\ \A i, j \in 1..Len(Rows(keyname)) :
       i < j => Rows(keyname)[i].day < Rows(keyname)[j].day
  /\ \A i \in 1..Len(Rows(keyname)) :
       /\ Len(Rows(keyname)[i].cells) = Len(fs[keyname].header)
       /\ Rows(keyname)[i].total = SumSeq(Rows(keyname)[i].cells)

\* C15 as stated: each daily and each cumulative table has exactly one row
\* for every calendar day of the window [start, end], in ascending order of
\* date, the Total of a row being the sum of its key columns.
C15_RowPerDayOfWindow ==
  pc = "done" =>
    \A keyname \in DOMAIN fs :
      /\ { RowDays(keyname)[i] : i \in 1..Len(Rows(keyname)) } = DaysOfWindow
      /\ RowsAscendingWithTotals(keyname)

\* C15, amended: each daily and each cumulative table has exactly one row
\* for every date of the store whose midnight lies in [start, end], and no
\* other row: a day of the window on which no line was stored has no row.
\* The rows are in ascending order of date and the Total of a row is the sum
\* of its key columns.
C15_RowPerStoredDay ==
  pc = "done" =>
    \A keyname \in DOMAIN fs :
      /\ { RowDays(keyname)[i] : i \in 1..Len(Rows(keyname)) }
           = StoredDays \cap DaysOfWindow
      /\ RowsAscendingWithTotals(keyname)

\* A report of two rows, the earlier date first, for a window of more than
\* two days.
C15_Witness ==
  /\ pc = "done"
  /\ Len(Rows("os")) = 2 /\ Len(Rows("cum_os")) = 2
  /\ Rows("os")[1].day < Rows("os")[2].day
  /\ Rows("os")[1].total > 0 /\ Rows("os")[2].total > 0
  /\ Cardinality(DaysOfWindow) > 2

\* The filename of a log line decodes: it has the prefix and the pattern of
\* a kind of package and a version that is accepted.
LogDecodable ==
  [l \in LogLines |->
     LET f == LogFacts[l].filename
         c == LogContents(f)
         m == ReMatch(FamilyRegex(c), f)
     IN  /\ ~LogFacts[l].skip /\ c # "none" /\ m.ok
         /\ VersionAccepted(MajorOf(m.groups[1]))]

\* The filename of a tarball line of the digest decodes.
TarballDecodable ==
  [l \in NativeLines |->
     LET n == NativeFacts[l]
         c == TarballContents(n.filename)
     IN  /\ n.tarball /\ ~n.binary /\ ~n.source
         /\ ~Contains(n.filename, "sha256sum")
         /\ c # "none" /\ ReMatch(FamilyRegex(c), n.filename).ok]

\* w has been added to the os cell and to the osarch cell of the labels on
\* the day.
CountedUnder(labels, day, w) ==
  LET os     == << DateKey(day), "os", labels.os >>
      osarch == << DateKey(day), "osarch", labels.os \o "/" \o labels.arch >>
  IN  /\ { os, osarch } \subseteq CellsOf(data')
      /\ Value(data', os) = Value(data, os) + w
      /\ Value(data', osarch) = Value(data, osarch) + w

\* C16: a decodable filename whose OS or architecture no rule matches is not
\* dropped.  An accepted line of a log (in the window, END, not on the
\* skip-list) and a tarball line in the body of an in-window message of the
\* digest, whose filename decodes and classifies as "Unknown" for the OS or
\* the architecture, add their weight (1, the hit count) to the os cell of
\* the OS label and to the osarch cell "{os}/{arch}", "Unknown" included.
C16_UnknownIsCounted ==
  [][ /\ LogStep =>
           LET l == last'.line
               f == LogFacts[l]
               u == ExpectedLabels["log"][l]
           IN  ( /\ f.ts # NoDate /\ f.ts >= args.start /\ f.ts <= args.end
                 /\ f.is_end /\ LogDecodable[l]
                 /\ "Unknown" \in { u.os, u.arch } )
               => /\ last'.stored
                  /\ CountedUnder(u, DayOf(f.ts), 1)
      /\ NativeStep =>
           LET l == last'.line
               u == ExpectedLabels["native"][l]
           IN  ( /\ InWindowBody(l) /\ TarballDecodable[l]
                 /\ "Unknown" \in { u.os, u.arch } )
               => /\ last'.stored
                  /\ CountedUnder(u, nat.date, NativeFacts[l].hits) ]_vars

\* A log line and a digest line of unknown OS and architecture have been
\* counted under "Unknown" and "Unknown/Unknown".
C16_Witness ==
  /\ last.src = "log" /\ last.stored
  /\ last.r.os = "Unknown" /\ last.r.arch = "Unknown"
  /\ Cell(data, DateKey(last.day), "os", "Unknown") = 3
  /\ Cell(data, DateKey(last.day), "osarch", "Unknown/Unknown") = 3

\* The step emits the skip-notice: logging.debug("Skipping email due to
\* date") is called together with date_warning = True.
SkipNoticeEmitted ==
  nat.date_warning = "False" /\ nat'.date_warning = "True"

\* The step ends a message: the next boundary line is read, or the end of
\* the mailbox is reached.
MessageEnds ==
  \/ NativeStep /\ NativeShape[last'.line] = "boundary"
  \/ nat_pc = "reading" /\ nat_pc' = "closed"

C18_KeyedToHeaderDate ==
  (nat_pc = "reading" /\ last.src = "native" /\ last.stored) =>
     /\ last.day = nat.header_date
     /\ \A c \in FourCells(last.day, last.r.version, last.r.version_major,
                           last.r.os, last.r.arch) :
          c \in CellsOf(data) /\ c[1] = DateKey(nat.header_date)

\* The first family, in the order binary, source, tarball, that a line of
\* the digest matches; "none" when it matches no family.
FirstFamily ==
  [l \in NativeLines |->
     IF NativeFacts[l].binary THEN "binary"
     ELSE IF NativeFacts[l].source THEN "source"
     ELSE IF NativeFacts[l].tarball THEN "tarball"
     ELSE "none"]

\* C19: a candidate line in the body of an in-window message is decoded by
\* the first family it matches, in the order binary RPM/Debian, source
\* RPM/Debian, tarball.  A line matching the binary family is stored as a
\* binary (OS "Linux", the architecture of its token) and a line of the
\* source family as a source ("Linux", "All"), whatever other family they
\* match; a line is counted once, its hit count being added to the four
\* cells of these keys alone; a tarball line is stored as a tarball or not
\* at all; a line matching no family leaves the store unchanged.
C19_FirstFamilyWins ==
  [][ NativeStep =>
        LET l == last'.line
            f == NativeFacts[l]
            r == last'.r
            once == AddsExactly(data, data',
                                FourCells(nat.date, r.version, r.version_major,
                                          r.os, r.arch), f.hits)
        IN  InWindowBody(l) =>
              /\ FirstFamily[l] = "none" => ~last'.stored /\ data' = data
              /\ FirstFamily[l] = "binary" =>
                   /\ last'.stored /\ r.family = "binary"
                   /\ r.os = LINUX /\ r.arch = get_arch(f.token) /\ once
              /\ FirstFamily[l] = "source" =>
                   /\ last'.stored /\ r.family = "source"
                   /\ r.os = LINUX /\ r.arch = "All" /\ once
              /\ FirstFamily[l] = "tarball" =>
                   IF last'.stored
                   THEN /\ r.family = "tarball"
                        /\ r.os = ExpectedLabels["native"][l].os
                        /\ r.arch = ExpectedLabels["native"][l].arch
                        /\ once
                   ELSE data' = data ]_vars

\* A line that matches the binary family and the tarball family (an RPM
\* below /tarball/, with Windows in its name) has been counted once, as the
\* binary family decodes it: under Linux, nothing under Windows.
C19_Witness ==
  /\ last.src = "native" /\ last.stored
  /\ last.line = "/condor/tarball/8.9/condor-8.9.0-Windows.x86_64.rpm (6 hits)"
  /\ NativeFacts[last.line].binary /\ NativeFacts[last.line].tarball
  /\ last.r.family = "binary"
  /\ Cell(data, DateKey(last.day), "os", "Linux") = 6
  /\ << DateKey(last.day), "os", "Windows" >> \notin CellsOf(data)
  /\ Cell(data, DateKey(last.day), "version", "8.9.0") = 6

\* The keys written for a dimension on any date of the store.
KeysWritten(dim) ==
  UNION { DOMAIN data[top][dim] :
            top \in { t \in DOMAIN data : t[1] = "date" /\ dim \in DOMAIN data[t] } }

\* A sequence of keys is in the order of its dimension: no version before
\* one of lesser integer components, the other keys in ascending lexical
\* order.
InKeyOrder(dim, h) ==
  \A i, j \in 1..Len(h) :
    i < j => IF dim \in { "version", "version_major" }
             THEN ~IntListLess(VersionKey(h[j]), VersionKey(h[i]))
             ELSE StrLess(h[i], h[j])

\* C20: when the report is written, the key sequence of each dimension is
\* the set of the keys written for it on any date of the store, each once,
\* in component-wise integer order for version and version_major and in
\* lexical order for os and osarch.  The one sequence is the header of the
\* daily and of the cumulative table of the dimension, and the columns of
\* every row follow it: cell i of a daily row is the count of key i on the
\* date of the row, cell i of a cumulative row the sum of cell i of the
\* daily rows up to that date.
C20_OneKeySequence ==
  pc = "done" =>
    \A dim \in DimensionSet :
      LET h   == fs[dim].header
          cum == "cum_" \o dim
      IN  /\ { h[i] : i \in 1..Len(h) } = KeysWritten(dim)
          /\ \A i, j \in 1..Len(h) : i < j => h[i] # h[j]
          /\ InKeyOrder(dim, h)
          /\ fs[cum].header = h
          /\ Len(Rows(cum)) = Len(Rows(dim))
          /\ \A k \in 1..Len(Rows(dim)) :
               /\ Len(Rows(dim)[k].cells) = Len(h)
               /\ Len(Rows(cum)[k].cells) = Len(h)
               /\ \A i \in 1..Len(h) :
                    /\ Rows(dim)[k].cells[i]
                         = Cell(data, DateKey(Rows(dim)[k].day), dim, h[i])
                    /\ Rows(cum)[k].cells[i]
                         = SumSeq([m \in 1..k |-> Rows(dim)[m].cells[i]])

\* A report with two keys of a dimension in order and two dates, each key
\* counted on one of the dates only: a row has a 0 in the column of the key
\* of the other date.
C20_Witness ==
  /\ pc = "done"
  /\ fs["os"].header = << "Linux", "Windows" >>
  /\ fs["cum_os"].header = << "Linux", "Windows" >>
  /\ Len(Rows("os")) = 2
  /\ Rows("os")[1].cells = << 0, 1 >>
  /\ Rows("os")[2].cells[1] > 0 /\ Rows("os")[2].cells[2] = 0
  /\ Rows("cum_os")[2].cells[2] = 1

\* The cells of the dates of a store: those of "cum" left out.
DateCells(d) == { c \in CellsOf(d) : c[1][1] = "date" }

\* C21: within one run the value of a (date, dimension, key) cell never
\* decreases: from one step to the next, over the lines of the digest and
\* of the logs in any sequence and over the report, every cell of a date
\* stays in the store and holds at least what it held.
C21_CellsNeverDecrease ==
  [][ \A c \in DateCells(data) :
        c \in DateCells(data') /\ Value(data', c) >= Value(data, c) ]_vars

\* A cell that held the 12 hits of a digest line has grown by a log line of
\* the same day and version.
C21_Witness ==
  /\ last.src = "log" /\ last.stored
  /\ last.r.version = "8.9.0"
  /\ Cell(data, DateKey(last.day), "version", "8.9.0") = 13
  /\ Cardinality(DOMAIN Level3(data, DateKey(last.day), "os")) = 2

\* The step is a call of write_csvs, get_keys included.
ReportStep ==
  /\ pc = "ingest" /\ nat_pc = "closed" /\ log_pc = "idle"
  /\ pc' # "ingest" /\ error' # "OSError"

\* C22 as stated: write_csvs and get_keys leave the store as ingestion left
\* it: no top-level entry, date, dimension or key is added and no count
\* changes.
C22_StoreReadOnlyInReport ==
  [][ ReportStep => data' = data ]_vars

\* C22, amended: get_keys leaves the store as it is, and so does a report
\* that get_keys aborts.  write_csvs changes no count of a cell that
\* ingestion left and adds no date and no dimension of a date; once it has
\* written a row it has added the top-level entry "cum", which holds the
\* cumulative counts under the names of the cumulative tables, and, on each
\* date it has a row for, a cell holding 0 for every key of the index that
\* the date did not have.
C22_ReportAddsCumAndZeros ==
  [][ ReportStep =>
        /\ pc' = "aborted" => data' = data
        /\ \A c \in CellsOf(data) :
             c \in CellsOf(data') /\ Value(data', c) = Value(data, c)
        /\ DOMAIN data' \subseteq DOMAIN data \cup { CumKey }
        /\ CumKey \in DOMAIN data' <=> (pc' = "done" /\ Len(Rows("os")') > 0)
        /\ \A top \in DOMAIN data : DOMAIN data'[top] = DOMAIN data[top]
        /\ \A c \in CellsOf(data') \ CellsOf(data) :
             \/ c[1] = CumKey /\ c[2] \in { "cum_" \o dim : dim \in DimensionSet }
             \/ /\ Value(data', c) = 0
                /\ c[3] \in KeysWritten(c[2])
                /\ \E i \in 1..Len(Rows("os")') : DateKey(Rows("os")'[i].day) = c[1]
      ]_vars

\* After a report of two dates the store has the entry "cum" and, on the
\* first date, a cell holding 0 for a key that only the second date had.
C22_Witness ==
  /\ pc = "done"
  /\ CumKey \in DOMAIN data
  /\ Len(Rows("version")) = 2
  /\ \E c \in DateCells(data) :
       /\ c[1] = DateKey(Rows("version")[1].day)
       /\ Value(data, c) = 0
       /\ Cell(data, DateKey(Rows("version")[2].day), c[2], c[3]) > 0

\* The sum of the counts of one dimension on one date.
DaySum(top, dim) ==
  SumCells(data, { << top, dim, key >> : key \in DOMAIN Level3(data, top, dim) })

\* C23: after any sequence of ingested lines, on every date of the store
\* the counts of the keys sum to the same number in the four dimensions
\* version, version_major, os and osarch, a stored line having added its
\* weight to one key of each; the date has the four dimensions and no
\* other.
C23_DimensionsSumAlike ==
  \A top \in { t \in DOMAIN data : t[1] = "date" } :
    /\ DOMAIN data[top] = DimensionSet
    /\ \A dim \in DimensionSet : DaySum(top, dim) = DaySum(top, "os")

\* A date with two versions and one OS: 12 and 1 in the version dimension,
\* 13 in the os dimension.
C23_Witness ==
  /\ pc = "ingest" /\ last.src = "log" /\ last.stored
  /\ DOMAIN Level3(data, DateKey(last.day), "version") = { "8.8.1", "8.9.0" }
  /\ Cell(data, DateKey(last.day), "version", "8.9.0") = 12
  /\ Cell(data, DateKey(last.day), "version", "8.8.1") = 1
  /\ DOMAIN Level3(data, DateKey(last.day), "os") = { "Linux" }
  /\ DaySum(DateKey(last.day), "os") = 13
  /\ DaySum(DateKey(last.day), "osarch") = 13

====
